---------------------------- MODULE Spec2Model ----------------------------
(***************************************************************************)
(* The request-handling code of the http-practice feature: the token       *)
(* refresh of AuthService and AuthInterceptor, the RequestQueueService,    *)
(* the two caches (CacheService, CacheInterceptor) and the retry           *)
(* operators (getPostsWithRetry, retryWithBackoff).                        *)
(*                                                                         *)
(* The code runs on one JavaScript thread: every handler (a call by the    *)
(* application, the arrival of a response, a timer) runs to completion,    *)
(* so each handler is one action.  The components are not wired to each    *)
(* other in the source, so each has its own next-state relation and its    *)
(* own specification over the shared list of variables.                    *)
(***************************************************************************)
EXTENDS Integers, Sequences, FiniteSets

(***************************************************************************)
(* Bounds of the model.                                                    *)
(***************************************************************************)
NumCallers == 3
MaxSessionOps == 1
NumReqs == 5
NumCacheReqs == 3
MaxTicks == 2
MaxCrudOps == 3
NumPostIds == 3

Callers == 1..NumCallers
Reqs == 1..NumReqs
Urls == {"/api/data", "/api/users"}
CacheReqs == 1..NumCacheReqs

VARIABLES
    \* ---- AuthService / AuthInterceptor ----
    tokens,                 \* localStorage 'tokens': 0 = no item, n = the n-th pair issued
    refreshTokenInProgress, \* AuthService.refreshTokenInProgress
    refreshTokenSubject,    \* value held by the BehaviorSubject: 0 = null, else an access token
    loginInFlight,          \* number of POST /auth/login calls in flight (0 or 1)
    sessionOps,             \* number of login() and logout() calls by the user so far
    issued,                 \* number of token pairs the server has issued so far
    refreshCalls,           \* number of POST /auth/refresh calls issued so far
    refreshInFlight,        \* number of POST /auth/refresh calls in flight
    refreshBy,              \* refreshBy[k]: the request whose 401 issued refresh call k (0 = not issued)
    refreshStatus,          \* refreshStatus[k]: the status refresh call k was answered with (0 = not answered)
    authIntercepted,        \* the ways intercept() took for the requests to /auth/login and /auth/refresh
    refreshResult,          \* refreshResult[k]: 0 = call k pending or not issued, -1 = failed, n = pair issued
    pc,                     \* pc[c]: where request c is
    sent,                   \* sent[c]: credentials carried by c's transport calls, in order
    round,                  \* round[c]: the refresh call c attached to (0 = none)
    got,                    \* got[c]: the access token refreshToken() gave c (0 = none)
    err,                    \* err[c]: the error delivered to c's subscriber
    stale,                  \* the pairs whose access token is expired or within REFRESH_THRESHOLD of it
    callerAuth,             \* callerAuth[c]: the Authorization header the caller put on request c (0 = none)
    \* ---- RequestQueueService ----
    qAlive,                 \* the subscription of processQueue() to queue$ is open
    qActive,                \* mergeMap's count of subscribed inner observables
    qBuffer,                \* mergeMap's buffer of values not yet subscribed
    qpc,                    \* qpc[r]: where queued request r is
    admitted,               \* the requests in the order their HTTP call was started
    qCancelledAt,           \* qCancelledAt[r]: where r was when its caller unsubscribed ("no" = never)
    qErrors,                \* qErrors[r]: errors the retryWithBackoff of r has received
    \* ---- CacheService / CacheInterceptor ----
    now,                    \* Date.now(), in ms since the start
    ticks,                  \* number of times the clock has advanced
    svcCache,               \* CacheService.cache: url -> {data, timestamp} or NoEntry
    icCache,                \* CacheInterceptor.cache: url -> response or NoEntry
    icStoredAt,             \* when the entry of icCache was stored (the code keeps no such time)
    serverData,             \* serverData[u]: the version of resource u on the server
    cpc,                    \* cpc[k]: where request k is
    creq,                   \* creq[k]: what request k is and what it was answered
    madeAt,                 \* madeAt[k]: when read k was made through CacheService
    \* ---- getPostsWithRetry / retryWithBackoff ----
    rkind,                  \* the pipeline the request runs through
    rpc,                    \* where the request is
    attempts,               \* number of HTTP calls made (subscriptions to http.get)
    responses,              \* the statuses received, in order
    delays,                 \* the delay before each resubscription, in ms, in order
    rerr,                   \* the error delivered to the subscriber
    \* ---- BatchErrorHandler ----
    bpc,                    \* where the batch is
    bAttempts,              \* number of processBatch calls made for the batch
    bResponses,             \* the responses received, in order: status and Retry-After (s)
    bDelays,                \* the delay after each failed call that was followed by a wait, in ms
    berr,                   \* the status of the error delivered to the subscriber (0 = none)
    \* ---- getData(): retry(3) around a request that passes AuthInterceptor ----
    gpc,                    \* where the request is
    gSubs,                  \* number of subscriptions to http.get by retry(3), the first one counted
    gErrors,                \* number of errors retry(3) has received
    gCalls,                 \* the transport calls made, in order: kind ("send" or "resend") and credential
    gerr,                   \* the error delivered to the subscriber
    \* ---- BasicCrudComponent ----
    posts,                  \* BasicCrudComponent.posts
    currentPost,            \* BasicCrudComponent.currentPost, bound to the form (id 0 = undefined)
    isEditing,              \* BasicCrudComponent.isEditing
    loadState,              \* the getPosts() call of ngOnInit: "pending", "done" or "failed"
    ops                     \* ops[k]: the k-th create, update or delete call: kind, payload, state

authVars == <<tokens, refreshTokenInProgress, refreshTokenSubject, loginInFlight, sessionOps,
              issued, refreshCalls, refreshInFlight, refreshBy, authIntercepted, refreshStatus, refreshResult,
              pc, sent, round, got, err>>

queueVars == <<qAlive, qActive, qBuffer, qpc, admitted, qCancelledAt, qErrors>>

cacheVars == <<now, ticks, svcCache, icCache, icStoredAt, serverData, cpc, creq, madeAt>>

retryVars == <<rkind, rpc, attempts, responses, delays, rerr>>

batchVars == <<bpc, bAttempts, bResponses, bDelays, berr>>

getVars == <<gpc, gSubs, gErrors, gCalls, gerr>>
crudVars == <<posts, currentPost, isEditing, loadState, ops>>

vars == <<authVars, stale, callerAuth, queueVars, cacheVars, retryVars, batchVars, getVars, crudVars>>

\* What the actions of one component leave alone.
NotAuth == <<stale, callerAuth, queueVars, cacheVars, retryVars, batchVars, getVars, crudVars>>
NotQueue == <<authVars, stale, callerAuth, cacheVars, retryVars, batchVars, getVars, crudVars>>
NotCache == <<authVars, stale, callerAuth, queueVars, retryVars, batchVars, getVars, crudVars>>
NotRetry == <<authVars, stale, callerAuth, queueVars, cacheVars, batchVars, getVars, crudVars>>
NotBatch == <<authVars, stale, callerAuth, queueVars, cacheVars, retryVars, getVars, crudVars>>
NotCrud == <<authVars, stale, callerAuth, queueVars, cacheVars, retryVars, batchVars, getVars>>
\* getData() runs on the AuthService: it leaves alone the requests of the
\* other callers and the other components.
NotGetData == <<loginInFlight, sessionOps, refreshBy, authIntercepted, refreshStatus, refreshResult, pc, sent, round, got, err,
                stale, callerAuth, queueVars, cacheVars, retryVars, batchVars, crudVars>>

(***************************************************************************)
(* AuthService                                                             *)
(***************************************************************************)

\* getStoredTokens(): an Observable of the stored pair, or an error when
\* localStorage holds no 'tokens' item.
HasStoredTokens == tokens # 0

\* refreshToken(), line 1049: a refresh is already running, the caller
\* attaches to refreshTokenSubject instead of issuing a call.
AttachToRunning_NoGuard == FALSE
AttachToRunning == refreshTokenInProgress

\* filter(token => token !== null) on the BehaviorSubject: a subscriber
\* is handed the value the subject holds at subscription, if it passes.
SubjectReplays == refreshTokenSubject # 0

\* The set of subscribers of refreshTokenSubject that the tap's
\* refreshTokenSubject.next(tokens.accessToken) reaches.
Joiners == {c \in Callers : pc[c] = "waiting"}

AuthInit ==
    /\ tokens \in {0, 1}
    /\ issued = 1
    /\ refreshTokenInProgress = FALSE
    /\ refreshTokenSubject = 0
    /\ loginInFlight = 0
    /\ sessionOps = 0
    /\ refreshCalls = 0
    /\ refreshInFlight = 0
    /\ refreshBy = [k \in 1..NumCallers |-> 0]
    /\ refreshStatus = [k \in 1..NumCallers |-> 0]
    /\ authIntercepted = {}
    /\ refreshResult = [k \in 1..NumCallers |-> 0]
    /\ pc = [c \in Callers |-> "idle"]
    /\ sent = [c \in Callers |-> <<>>]
    /\ round = [c \in Callers |-> 0]
    /\ got = [c \in Callers |-> 0]
    /\ err = [c \in Callers |-> "none"]
    /\ stale = {}

\* The requests of AuthService itself, lines 1043 and 1060.
LoginUrl == "/api/auth/login"
RefreshUrl == "/api/auth/refresh"

\* AuthInterceptor.isAuthEndpoint(url), lines 1119-1121
IsAuthEndpoint_LoginOnly(url) == url = LoginUrl
IsAuthEndpoint(url) == url \in {LoginUrl, RefreshUrl}

\* AuthInterceptor.intercept, lines 1104-1116: a request to an auth
\* endpoint is handed to next.handle as it is; any other request goes
\* through addAuthHeader and the catchError that sends a 401 to
\* handle401Error.
InterceptPath(url) == IF IsAuthEndpoint(url) THEN "plain" ELSE "authenticated"

\* login(): POST /auth/login is issued on subscription.  (The user logs
\* in when no pair is stored: on the way of addAuthHeader the request
\* would fail with 'No tokens found' before it is sent.)
Login ==
    /\ tokens = 0
    /\ loginInFlight = 0
    /\ sessionOps < MaxSessionOps
    /\ loginInFlight' = IF InterceptPath(LoginUrl) = "plain" THEN 1 ELSE 0
    /\ authIntercepted' = authIntercepted \cup
                             {[url |-> LoginUrl, path |-> InterceptPath(LoginUrl)]}
    /\ sessionOps' = sessionOps + 1
    /\ UNCHANGED <<tokens, refreshTokenInProgress, refreshTokenSubject, issued,
                   refreshCalls, refreshBy, refreshStatus, refreshInFlight, refreshResult, pc, sent, round, got, err>>
    /\ UNCHANGED NotAuth

\* login()'s tap(tokens => this.storeTokens(tokens)), or its error.
LoginRespond(ok) ==
    /\ loginInFlight = 1
    /\ loginInFlight' = 0
    /\ IF ok
          THEN /\ issued' = issued + 1
               /\ tokens' = issued + 1
          ELSE UNCHANGED <<issued, tokens>>
    /\ UNCHANGED <<refreshTokenInProgress, refreshTokenSubject, sessionOps,
                   refreshCalls, refreshBy, authIntercepted, refreshStatus, refreshInFlight, refreshResult, pc, sent, round, got, err>>
    /\ UNCHANGED NotAuth

\* logout(): localStorage.removeItem('tokens').
Logout ==
    /\ tokens # 0
    /\ sessionOps < MaxSessionOps
    /\ sessionOps' = sessionOps + 1
    /\ tokens' = 0
    /\ UNCHANGED <<refreshTokenInProgress, refreshTokenSubject, loginInFlight, issued,
                   refreshCalls, refreshBy, authIntercepted, refreshStatus, refreshInFlight, refreshResult, pc, sent, round, got, err>>
    /\ UNCHANGED NotAuth

(***************************************************************************)
(* AuthInterceptor                                                         *)
(***************************************************************************)

\* The value of an Authorization header a caller put on its request.
CallerSupplied == -1

\* req.headers.set('Authorization', value), lines 1127 and 1137:
\* HttpHeaders.set replaces the values the header has.
SetAuthorization_IfAbsent(current, value) == IF current = 0 THEN value ELSE current
SetAuthorization(current, value) == value

\* intercept() of a request to a protected endpoint: addAuthHeader reads
\* the stored pair and next.handle sends the request with its access
\* token; without stored tokens getStoredTokens errors and the error
\* passes catchError (it is no 401) to the subscriber.  Requests are
\* numbered in the order the application submits them.
Submit(c) ==
    /\ pc[c] = "idle"
    /\ \A d \in Callers : d < c => pc[d] # "idle"
    /\ IF HasStoredTokens
          THEN /\ pc' = [pc EXCEPT ![c] = "sending"]
               /\ sent' = [sent EXCEPT ![c] = Append(@, SetAuthorization(callerAuth[c], tokens))]
               /\ err' = err
          ELSE /\ pc' = [pc EXCEPT ![c] = "failed"]
               /\ err' = [err EXCEPT ![c] = "NoTokens"]
               /\ sent' = sent
    /\ UNCHANGED <<tokens, refreshTokenInProgress, refreshTokenSubject, loginInFlight,
                   sessionOps, issued, refreshCalls, refreshBy, authIntercepted, refreshStatus, refreshInFlight, refreshResult, round, got>>
    /\ UNCHANGED NotAuth

\* The status of a failed transport call as the subscriber sees it.
ErrorOf(status) ==
    CASE status = 401 -> "Http401"
      [] OTHER        -> "Http500"

\* handle401Error(), lines 1135-1138: the resend carries the access token
\* of the pair that refreshToken() emitted.
HeaderAfterRefresh_Stored(emitted) == tokens
HeaderAfterRefresh(emitted) == emitted

\* The catchError of intercept() sits on the first pipeline only: the
\* Observable handle401Error() returns replaces it, and an error of the
\* resend meets no catchError.
CatchesResendError_Again(status) == status = 401
CatchesResendError(status) == FALSE

\* handle401Error(): authService.refreshToken() and the subscription to
\* what it returns, in one turn.
Handle401(c) ==
    IF AttachToRunning
       THEN \* lines 1050-1054: subscribe to the BehaviorSubject
            /\ round' = [round EXCEPT ![c] = refreshCalls]
            /\ UNCHANGED <<refreshTokenInProgress, refreshCalls, refreshBy, authIntercepted, refreshStatus, refreshInFlight>>
            /\ IF SubjectReplays
                  THEN \* take(1) of the replayed value, then getStoredTokens()
                       IF HasStoredTokens
                          THEN /\ pc' = [pc EXCEPT ![c] = "resending"]
                               /\ got' = [got EXCEPT ![c] = tokens]
                               /\ sent' = [sent EXCEPT ![c] =
                                             Append(@, SetAuthorization(callerAuth[c],
                                                           HeaderAfterRefresh(tokens)))]
                               /\ err' = err
                          ELSE /\ pc' = [pc EXCEPT ![c] = "failed"]
                               /\ err' = [err EXCEPT ![c] = "NoTokens"]
                               /\ UNCHANGED <<got, sent>>
                  ELSE /\ pc' = [pc EXCEPT ![c] = "waiting"]
                       /\ UNCHANGED <<got, sent, err>>
       ELSE \* lines 1057-1060: this caller issues POST /auth/refresh
            /\ refreshTokenInProgress' = TRUE
            /\ refreshCalls' = refreshCalls + 1
            /\ refreshBy' = [refreshBy EXCEPT ![refreshCalls + 1] = c]
            /\ authIntercepted' = authIntercepted \cup
                                     {[url |-> RefreshUrl, path |-> InterceptPath(RefreshUrl)]}
            /\ refreshStatus' = refreshStatus
            /\ refreshInFlight' = refreshInFlight + 1
            /\ round' = [round EXCEPT ![c] = refreshCalls + 1]
            /\ pc' = [pc EXCEPT ![c] = "refreshing"]
            /\ UNCHANGED <<got, sent, err>>

\* The response of c's first transport call arrives.
Respond(c, status) ==
    /\ pc[c] = "sending"
    /\ CASE status = 200 ->
              /\ pc' = [pc EXCEPT ![c] = "success"]
              /\ UNCHANGED <<refreshTokenInProgress, refreshCalls, refreshBy, authIntercepted, refreshStatus, refreshInFlight,
                             round, got, sent, err>>
         [] status = 401 -> Handle401(c)
         [] OTHER ->
              /\ pc' = [pc EXCEPT ![c] = "failed"]
              /\ err' = [err EXCEPT ![c] = ErrorOf(status)]
              /\ UNCHANGED <<refreshTokenInProgress, refreshCalls, refreshBy, authIntercepted, refreshStatus, refreshInFlight,
                             round, got, sent>>
    /\ UNCHANGED <<tokens, refreshTokenSubject, loginInFlight, sessionOps, issued, refreshResult>>
    /\ UNCHANGED NotAuth

\* Lines 1062 and 1067: this.refreshTokenInProgress = false, in the tap
\* and in the catchError of refreshToken().
FlagAfterRefresh_Kept == refreshTokenInProgress
FlagAfterRefresh == FALSE

\* POST /auth/refresh succeeds: the tap of lines 1061-1065 resets the
\* flag, stores the pair and feeds the subject, which resumes every
\* joiner (getStoredTokens, then the resend of handle401Error); then the
\* caller that issued the call resends too.
RefreshSucceeds(i) ==
    /\ pc[i] = "refreshing"
    /\ LET new == issued + 1
           released == Joiners \cup {i}
       IN /\ issued' = new
          /\ refreshTokenInProgress' = FlagAfterRefresh
          /\ tokens' = new
          /\ refreshTokenSubject' = new
          /\ refreshInFlight' = refreshInFlight - 1
          /\ refreshResult' = [refreshResult EXCEPT ![round[i]] = new]
          /\ refreshStatus' = [refreshStatus EXCEPT ![round[i]] = 200]
          /\ pc' = [c \in Callers |-> IF c \in released THEN "resending" ELSE pc[c]]
          /\ got' = [c \in Callers |-> IF c \in released THEN new ELSE got[c]]
          /\ sent' = [c \in Callers |->
                        IF c \in released
                           THEN Append(sent[c], SetAuthorization(callerAuth[c],
                                                                 HeaderAfterRefresh(new)))
                           ELSE sent[c]]
    /\ UNCHANGED <<loginInFlight, sessionOps, refreshCalls, refreshBy, authIntercepted, round, err>>
    /\ UNCHANGED NotAuth

\* The statuses POST /auth/refresh fails with.
RefreshErrors == {401, 500}

\* POST /auth/refresh fails: the catchError of lines 1066-1071 resets the
\* flag, feeds null to the subject (which filter() drops for every
\* joiner), logs out and rethrows to the caller that issued the call.
RefreshRethrows(i, status) ==
    /\ refreshTokenInProgress' = FlagAfterRefresh
    /\ refreshTokenSubject' = 0
    /\ tokens' = 0
    /\ refreshInFlight' = refreshInFlight - 1
    /\ refreshResult' = [refreshResult EXCEPT ![round[i]] = -1]
    /\ refreshStatus' = [refreshStatus EXCEPT ![round[i]] = status]
    /\ pc' = [pc EXCEPT ![i] = "failed"]
    /\ err' = [err EXCEPT ![i] = "RefreshFailed"]
    /\ UNCHANGED <<loginInFlight, sessionOps, issued, refreshCalls, refreshBy, authIntercepted,
                   round, got, sent>>

\* The error response of POST /auth/refresh passes intercept() on its
\* way to refreshToken().  On the plain way nothing is in between.  On
\* the way of other requests the catchError of line 1110 would hand a 401
\* to handle401Error, whose refreshToken() finds the flag up and
\* subscribes to the subject: a replayed token resends the refresh call,
\* and without one the refresh waits for its own result.
RefreshFails(i, status) ==
    /\ pc[i] = "refreshing"
    /\ IF InterceptPath(RefreshUrl) = "plain" \/ status # 401
          THEN RefreshRethrows(i, status)
          ELSE IF SubjectReplays
                  THEN IF HasStoredTokens
                          THEN /\ refreshCalls' = refreshCalls + 1
                               /\ UNCHANGED <<tokens, refreshTokenInProgress,
                                              refreshTokenSubject, loginInFlight, sessionOps,
                                              issued, refreshBy, authIntercepted,
                                              refreshStatus, refreshInFlight, refreshResult,
                                              pc, sent, round, got, err>>
                          ELSE RefreshRethrows(i, status)
                  ELSE /\ pc' = [pc EXCEPT ![i] = "waiting"]
                       /\ refreshInFlight' = refreshInFlight - 1
                       /\ UNCHANGED <<tokens, refreshTokenInProgress, refreshTokenSubject,
                                      loginInFlight, sessionOps, issued, refreshCalls,
                                      refreshBy, authIntercepted, refreshStatus,
                                      refreshResult, sent, round, got, err>>
    /\ UNCHANGED NotAuth

\* The response of the resend of handle401Error arrives; nothing catches
\* its error.
ResendRespond(c, status) ==
    /\ pc[c] = "resending"
    /\ IF status = 200
          THEN /\ pc' = [pc EXCEPT ![c] = "success"]
               /\ UNCHANGED <<refreshTokenInProgress, refreshCalls, refreshBy, authIntercepted, refreshStatus, refreshInFlight,
                              round, got, sent, err>>
          ELSE IF CatchesResendError(status)
                  THEN Handle401(c)
                  ELSE /\ pc' = [pc EXCEPT ![c] = "failed"]
                       /\ err' = [err EXCEPT ![c] = ErrorOf(status)]
                       /\ UNCHANGED <<refreshTokenInProgress, refreshCalls, refreshBy, authIntercepted, refreshStatus,
                                      refreshInFlight, round, got, sent>>
    /\ UNCHANGED <<tokens, refreshTokenSubject, loginInFlight, sessionOps, issued, refreshResult>>
    /\ UNCHANGED NotAuth

\* The subscriber of request c unsubscribes.  The HTTP call the request
\* is subscribed to is aborted; for the request that issued POST
\* /auth/refresh that call is the refresh, and neither the tap nor the
\* catchError of refreshToken() runs for an unsubscribed call.
Cancel(c) ==
    /\ pc[c] \in {"sending", "refreshing", "waiting", "resending"}
    /\ pc' = [pc EXCEPT ![c] = "cancelled"]
    /\ refreshInFlight' = IF pc[c] = "refreshing" THEN refreshInFlight - 1 ELSE refreshInFlight
    /\ UNCHANGED <<tokens, refreshTokenInProgress, refreshTokenSubject, loginInFlight,
                   sessionOps, issued, refreshCalls, refreshBy, authIntercepted, refreshStatus, refreshResult,
                   sent, round, got, err>>
    /\ UNCHANGED NotAuth

\* The statuses a protected endpoint answers with.
Statuses == {200, 401, 500}

NextAuth ==
    \/ Login
    \/ \E ok \in BOOLEAN : LoginRespond(ok)
    \/ Logout
    \/ \E c \in Callers : Submit(c)
    \/ \E c \in Callers, s \in Statuses : Respond(c, s)
    \/ \E c \in Callers : RefreshSucceeds(c)
    \/ \E c \in Callers, s \in RefreshErrors : RefreshFails(c, s)
    \/ \E c \in Callers, s \in Statuses : ResendRespond(c, s)

\* Time passes: the access token of the stored pair comes within
\* REFRESH_THRESHOLD seconds of its expiry (AuthTokens.expiresIn).  No
\* code runs: nothing in AuthService or AuthInterceptor reads the expiry
\* or REFRESH_THRESHOLD.
Expire ==
    /\ HasStoredTokens
    /\ tokens \notin stale
    /\ stale' = stale \cup {tokens}
    /\ UNCHANGED <<authVars, callerAuth, queueVars, cacheVars, retryVars, batchVars, getVars, crudVars>>

\* The same, with the clock.
NextAuthExpiry ==
    \/ NextAuth
    \/ Expire

\* The same, with subscribers that may unsubscribe.
NextAuthCancel ==
    \/ NextAuth
    \/ \E c \in Callers : Cancel(c)

\* Every HTTP call is answered.
AuthFairness ==
    /\ WF_vars(\E ok \in BOOLEAN : LoginRespond(ok))
    /\ WF_vars(\E c \in Callers, s \in Statuses : Respond(c, s))
    /\ WF_vars(\E c \in Callers : RefreshSucceeds(c) \/ \E s \in RefreshErrors : RefreshFails(c, s))
    /\ WF_vars(\E c \in Callers, s \in Statuses : ResendRespond(c, s))

(***************************************************************************)
(* RequestQueueService                                                     *)
(***************************************************************************)

\* private concurrentRequests = 3
concurrentRequests == 3

QueueInit ==
    /\ qAlive = TRUE
    /\ qActive = 0
    /\ qBuffer = <<>>
    /\ qpc = [r \in Reqs |-> "new"]
    /\ admitted = <<>>
    /\ qCancelledAt = [r \in Reqs |-> "no"]
    /\ qErrors = [r \in Reqs |-> 0]

\* mergeMap(project, concurrent): a value is subscribed at once while
\* fewer than `concurrent` inner observables are subscribed.
HasFreeSlot_OffByOne(active) == active <= concurrentRequests
HasFreeSlot(active) == active < concurrentRequests

\* mergeMap takes the next value with buffer.shift(): the oldest one.
\* <<the value taken, the buffer that is left>>
Shift_Newest(buffer) == <<buffer[Len(buffer)], SubSeq(buffer, 1, Len(buffer) - 1)>>
Shift(buffer) == <<Head(buffer), Tail(buffer)>>

\* mergeMap, when an inner observable completes: subscribe buffered
\* values while there are any and a slot is free.
\* <<buffer, active, the requests started, in order>>
RECURSIVE Drain(_, _, _)
Drain(buffer, active, started) ==
    IF buffer # <<>> /\ HasFreeSlot(active)
       THEN Drain(Shift(buffer)[2], active + 1, Append(started, Shift(buffer)[1]))
       ELSE <<buffer, active, started>>

InSeq(x, seq) == \E i \in 1..Len(seq) : seq[i] = x

\* Subscription to the Observable addToQueue() returned: queue$.next(...)
\* hands the request to mergeMap, which starts it or buffers it.  After
\* the subscription of processQueue() has ended, queue$ has no observer
\* and the value is dropped.  Requests are numbered in the order they
\* are subscribed.
AddToQueue(r) ==
    /\ qpc[r] = "new"
    /\ \A q \in Reqs : q < r => qpc[q] # "new"
    /\ IF ~qAlive
          THEN /\ qpc' = [qpc EXCEPT ![r] = "dropped"]
               /\ UNCHANGED <<qActive, qBuffer, admitted>>
          ELSE IF HasFreeSlot(qActive)
                  THEN /\ qActive' = qActive + 1
                       /\ qpc' = [qpc EXCEPT ![r] = "active"]
                       /\ admitted' = Append(admitted, r)
                       /\ qBuffer' = qBuffer
                  ELSE /\ qBuffer' = Append(qBuffer, r)
                       /\ qpc' = [qpc EXCEPT ![r] = "queued"]
                       /\ UNCHANGED <<qActive, admitted>>
    /\ qAlive' = qAlive
    /\ qCancelledAt' = qCancelledAt
    /\ qErrors' = qErrors
    /\ UNCHANGED NotQueue

\* The HTTP call of r answers and completes: tap hands the response and
\* the completion to r's observer, and mergeMap frees the slot and
\* starts buffered requests.
QueueComplete(r) ==
    /\ qpc[r] = "active"
    /\ LET d == Drain(qBuffer, qActive - 1, <<>>)
       IN /\ qBuffer' = d[1]
          /\ qActive' = d[2]
          /\ admitted' = admitted \o d[3]
          /\ qpc' = [q \in Reqs |->
                       IF q = r THEN "done"
                       ELSE IF InSeq(q, d[3]) THEN "active"
                       ELSE qpc[q]]
    /\ qAlive' = qAlive
    /\ qCancelledAt' = qCancelledAt
    /\ qErrors' = qErrors
    /\ UNCHANGED NotQueue

\* The HTTP call of r fails: tap hands the error to r's observer, and
\* the error passes mergeMap to the subscribe() of processQueue(), which
\* has no error handler: the subscription ends, the other running calls
\* are unsubscribed (aborted) and the buffer is discarded.
QueueFail(r) ==
    /\ qpc[r] = "active"
    /\ qAlive' = FALSE
    /\ qActive' = 0
    /\ qBuffer' = <<>>
    /\ qpc' = [q \in Reqs |->
                 IF q = r THEN "failed"
                 ELSE IF qpc[q] = "active" THEN "aborted"
                 ELSE IF qpc[q] = "queued" THEN "dropped"
                 ELSE qpc[q]]
    /\ admitted' = admitted
    /\ qCancelledAt' = qCancelledAt
    /\ qErrors' = qErrors
    /\ UNCHANGED NotQueue

\* The caller of r unsubscribes from the Observable addToQueue()
\* returned.  The subscribe function of lines 467-477 returns no
\* teardown: the function handed to queue$ stays where it is, in
\* mergeMap's buffer or subscribed, and only the observer is closed.
QueueCancel(r) ==
    /\ qpc[r] \in {"queued", "active"}
    /\ qCancelledAt[r] = "no"
    /\ qCancelledAt' = [qCancelledAt EXCEPT ![r] = qpc[r]]
    /\ UNCHANGED <<qAlive, qActive, qBuffer, qpc, admitted, qErrors>>
    /\ UNCHANGED NotQueue

NextQueue ==
    \/ \E r \in Reqs : AddToQueue(r)
    \/ \E r \in Reqs : QueueComplete(r)
    \/ \E r \in Reqs : QueueFail(r)
    \/ \E r \in Reqs : QueueCancel(r)

(***************************************************************************)
(* CacheService and CacheInterceptor                                       *)
(***************************************************************************)

\* private readonly MAX_CACHE_AGE = 5 * 60 * 1000; // 5 minutes
MAX_CACHE_AGE == 5 * 60 * 1000

\* The clock advances by one of these amounts at a time.
TimeSteps == {1, MAX_CACHE_AGE}

NoEntry == [data |-> -1]
NoRequest == [via |-> "none", method |-> "none", url |-> "none", data |-> -1, age |-> -1]

CacheInit ==
    /\ now = 0
    /\ ticks = 0
    /\ svcCache = [u \in Urls |-> NoEntry]
    /\ icCache = [u \in Urls |-> NoEntry]
    /\ icStoredAt = [u \in Urls |-> 0]
    /\ serverData = [u \in Urls |-> 0]
    /\ cpc = [k \in CacheReqs |-> "new"]
    /\ creq = [k \in CacheReqs |-> NoRequest]
    /\ madeAt = [k \in CacheReqs |-> 0]

Tick(d) ==
    /\ ticks < MaxTicks
    /\ ticks' = ticks + 1
    /\ now' = now + d
    /\ UNCHANGED <<svcCache, icCache, icStoredAt, serverData, cpc, creq, madeAt>>
    /\ UNCHANGED NotCache

\* CacheService.isExpired(entry)
IsExpired(entry) == now - entry.timestamp > MAX_CACHE_AGE

\* CacheService.getData, line 375: cached && !this.isExpired(cached)
SvcHit(url) == svcCache[url] # NoEntry /\ ~IsExpired(svcCache[url])

\* CacheInterceptor.intercept, lines 315-316: if (cachedResponse)
IcHit(url) == icCache[url] # NoEntry

\* What a hit hands to the subscriber: of(cached.data), line 376, and
\* of(cachedResponse.clone()), line 317.
HitValue_Nothing(entry) == -1
HitValue(entry) == entry.data

\* Requests are numbered in the order the application makes them.
IsNextRequest(k) == cpc[k] = "new" /\ \A j \in CacheReqs : j < k => cpc[j] # "new"

\* CacheService.getData(url), subscribed: the cached data, or http.get
\* whose response the tap will store.
SvcGetData(k, url) ==
    /\ IsNextRequest(k)
    /\ IF SvcHit(url)
          THEN /\ cpc' = [cpc EXCEPT ![k] = "hit"]
               /\ creq' = [creq EXCEPT ![k] =
                     [via |-> "svc", method |-> "GET", url |-> url,
                      data |-> HitValue(svcCache[url]),
                      age |-> now - svcCache[url].timestamp]]
          ELSE /\ cpc' = [cpc EXCEPT ![k] = "pending"]
               /\ creq' = [creq EXCEPT ![k] =
                     [via |-> "svc", method |-> "GET", url |-> url,
                      data |-> -1, age |-> -1]]
    /\ madeAt' = [madeAt EXCEPT ![k] = now]
    /\ UNCHANGED <<now, ticks, svcCache, icCache, icStoredAt, serverData>>
    /\ UNCHANGED NotCache

\* The response of getData's http.get arrives: the tap stores it with
\* the current time; an error reaches the subscriber and stores nothing.
SvcRespond(k, ok) ==
    /\ cpc[k] = "pending"
    /\ creq[k].via = "svc"
    /\ IF ok
          THEN /\ svcCache' = [svcCache EXCEPT ![creq[k].url] =
                     [data |-> serverData[creq[k].url], timestamp |-> now]]
               /\ cpc' = [cpc EXCEPT ![k] = "ok"]
               /\ creq' = [creq EXCEPT ![k].data = serverData[creq[k].url]]
          ELSE /\ cpc' = [cpc EXCEPT ![k] = "failed"]
               /\ UNCHANGED <<svcCache, creq>>
    /\ UNCHANGED <<now, ticks, icCache, icStoredAt, serverData, madeAt>>
    /\ UNCHANGED NotCache

\* CacheInterceptor.intercept(req) of a GET: the cached response, or
\* next.handle(req) whose HttpResponse the tap will store.
IcGet(k, url) ==
    /\ IsNextRequest(k)
    /\ IF IcHit(url)
          THEN /\ cpc' = [cpc EXCEPT ![k] = "hit"]
               /\ creq' = [creq EXCEPT ![k] =
                     [via |-> "ic", method |-> "GET", url |-> url,
                      data |-> HitValue(icCache[url]), age |-> now - icStoredAt[url]]]
          ELSE /\ cpc' = [cpc EXCEPT ![k] = "pending"]
               /\ creq' = [creq EXCEPT ![k] =
                     [via |-> "ic", method |-> "GET", url |-> url,
                      data |-> -1, age |-> -1]]
    /\ UNCHANGED <<now, ticks, svcCache, icCache, icStoredAt, serverData, madeAt>>
    /\ UNCHANGED NotCache

\* The response of an intercepted GET arrives: the tap stores the
\* HttpResponse under req.url; an error is no HttpResponse event.
IcRespond(k, ok) ==
    /\ cpc[k] = "pending"
    /\ creq[k].via = "ic"
    /\ creq[k].method = "GET"
    /\ IF ok
          THEN /\ icCache' = [icCache EXCEPT ![creq[k].url] =
                     [data |-> serverData[creq[k].url]]]
               /\ icStoredAt' = [icStoredAt EXCEPT ![creq[k].url] = now]
               /\ cpc' = [cpc EXCEPT ![k] = "ok"]
               /\ creq' = [creq EXCEPT ![k].data = serverData[creq[k].url]]
          ELSE /\ cpc' = [cpc EXCEPT ![k] = "failed"]
               /\ UNCHANGED <<icCache, icStoredAt, creq>>
    /\ UNCHANGED <<now, ticks, svcCache, serverData, madeAt>>
    /\ UNCHANGED NotCache

\* CacheInterceptor.intercept, line 311: req.method !== 'GET'
BypassesCache_Never(method) == FALSE
BypassesCache(method) == method # "GET"

\* CacheInterceptor.intercept(req) of a request that is no GET, lines
\* 311-313: next.handle(req), and nothing else; the lookup of lines
\* 315-318 is not reached.
IcWrite(k, url) ==
    /\ IsNextRequest(k)
    /\ IF BypassesCache("PUT") \/ ~IcHit(url)
          THEN /\ cpc' = [cpc EXCEPT ![k] = "pending"]
               /\ creq' = [creq EXCEPT ![k] =
                     [via |-> "ic", method |-> "PUT", url |-> url,
                      data |-> -1, age |-> -1]]
          ELSE /\ cpc' = [cpc EXCEPT ![k] = "hit"]
               /\ creq' = [creq EXCEPT ![k] =
                     [via |-> "ic", method |-> "PUT", url |-> url,
                      data |-> HitValue(icCache[url]), age |-> now - icStoredAt[url]]]
    /\ UNCHANGED <<now, ticks, svcCache, icCache, icStoredAt, serverData, madeAt>>
    /\ UNCHANGED NotCache

\* The response of an intercepted write arrives and passes through
\* untouched (the tap of lines 320-326 is not on its path); a successful
\* write has changed the resource on the server.
IcWriteRespond(k, ok) ==
    /\ cpc[k] = "pending"
    /\ creq[k].via = "ic"
    /\ creq[k].method = "PUT"
    /\ IF ok
          THEN /\ serverData' = [serverData EXCEPT ![creq[k].url] = @ + 1]
               /\ cpc' = [cpc EXCEPT ![k] = "ok"]
               /\ IF BypassesCache("PUT")
                     THEN UNCHANGED <<icCache, icStoredAt>>
                     ELSE /\ icCache' = [icCache EXCEPT ![creq[k].url] =
                                [data |-> serverData'[creq[k].url]]]
                          /\ icStoredAt' = [icStoredAt EXCEPT ![creq[k].url] = now]
          ELSE /\ cpc' = [cpc EXCEPT ![k] = "failed"]
               /\ UNCHANGED <<serverData, icCache, icStoredAt>>
    /\ UNCHANGED <<now, ticks, svcCache, creq, madeAt>>
    /\ UNCHANGED NotCache

\* The application reading through CacheService.
NextSvcCache ==
    \/ \E d \in TimeSteps : Tick(d)
    \/ \E k \in CacheReqs, u \in Urls : SvcGetData(k, u)
    \/ \E k \in CacheReqs, ok \in BOOLEAN : SvcRespond(k, ok)

\* The application reading and writing through CacheInterceptor.
NextIcCache ==
    \/ \E d \in TimeSteps : Tick(d)
    \/ \E k \in CacheReqs, u \in Urls : IcGet(k, u)
    \/ \E k \in CacheReqs, ok \in BOOLEAN : IcRespond(k, ok)
    \/ \E k \in CacheReqs, u \in Urls : IcWrite(k, u)
    \/ \E k \in CacheReqs, ok \in BOOLEAN : IcWriteRespond(k, ok)

(***************************************************************************)
(* HttpDemoService.getPostsWithRetry and retryWithBackoff                  *)
(***************************************************************************)

\* retry(3) in getPostsWithRetry
retryCount == 3
\* retryWithBackoff(maxRetries = 3, backoffMs = 1000)
maxRetries == 3
backoffMs == 1000

Pipelines == {"getPostsWithRetry", "retryWithBackoff"}
RetryStatuses == {200, 404, 500}

RetryInit ==
    /\ rkind = "none"
    /\ rpc = "idle"
    /\ attempts = 0
    /\ responses = <<>>
    /\ delays = <<>>
    /\ rerr = "none"

\* The application subscribes: http.get is subscribed, the first call.
RetryStart(kind) ==
    /\ rpc = "idle"
    /\ rkind' = kind
    /\ rpc' = "inflight"
    /\ attempts' = 1
    /\ UNCHANGED <<responses, delays, rerr>>
    /\ UNCHANGED NotRetry

\* retry(3): the source is resubscribed, at once, for each of the first
\* 3 errors, whatever the error is.
RetryResubscribes(errors) == errors <= retryCount

\* retryWithBackoff, lines 739-743: the error with index `index` is
\* rethrown when index + 1 > maxRetries, else the source is resubscribed
\* after timer(retryAttempt * backoffMs).
BackoffGivesUp_OneMore(index) == index + 1 > maxRetries + 1
BackoffGivesUp(index) == index + 1 > maxRetries

BackoffDelay(index) == (index + 1) * backoffMs

\* A response arrives.  A 2xx is handed to the subscriber; any other
\* status is an error that goes to the retry operator.
RetryRespond(status) ==
    /\ rpc = "inflight"
    /\ responses' = Append(responses, status)
    /\ LET errors == Cardinality({i \in 1..Len(responses') : responses'[i] # 200})
       IN IF status = 200
             THEN /\ rpc' = "success"
                  /\ UNCHANGED <<attempts, delays, rerr>>
             ELSE IF rkind = "getPostsWithRetry"
                     THEN IF RetryResubscribes(errors)
                             THEN /\ attempts' = attempts + 1
                                  /\ delays' = Append(delays, 0)
                                  /\ UNCHANGED <<rpc, rerr>>
                             ELSE \* catchError of lines 84-87
                                  /\ rpc' = "failed"
                                  /\ rerr' = "Failed to fetch posts after 3 retries"
                                  /\ UNCHANGED <<attempts, delays>>
                     ELSE IF BackoffGivesUp(errors - 1)
                             THEN /\ rpc' = "failed"
                                  /\ rerr' = "HttpErrorResponse"
                                  /\ UNCHANGED <<attempts, delays>>
                             ELSE /\ rpc' = "backoff"
                                  /\ delays' = Append(delays, BackoffDelay(errors - 1))
                                  /\ UNCHANGED <<attempts, rerr>>
    /\ rkind' = rkind
    /\ UNCHANGED NotRetry

\* The timer of retryWithBackoff fires: the source is resubscribed.
BackoffElapsed ==
    /\ rpc = "backoff"
    /\ rpc' = "inflight"
    /\ attempts' = attempts + 1
    /\ UNCHANGED <<rkind, responses, delays, rerr>>
    /\ UNCHANGED NotRetry

\* timeout(5000) of getPostsWithRetry, placed after retry(3): no value
\* came within 5 s of the subscription, whichever attempt is running.
\* The source is unsubscribed and the TimeoutError goes to catchError.
RetryTimeout ==
    /\ rkind = "getPostsWithRetry"
    /\ rpc = "inflight"
    /\ rpc' = "failed"
    /\ rerr' = "Failed to fetch posts after 3 retries"
    /\ UNCHANGED <<rkind, attempts, responses, delays>>
    /\ UNCHANGED NotRetry

NextRetry ==
    \/ \E kind \in Pipelines : RetryStart(kind)
    \/ \E s \in RetryStatuses : RetryRespond(s)
    \/ BackoffElapsed
    \/ RetryTimeout

(***************************************************************************)
(* BatchErrorHandler                                                       *)
(***************************************************************************)

\* retry({ count: 3, ... }) in retryBatch
batchRetryCount == 3

\* The values of the Retry-After header of a 429, in seconds.
RetryAfterHints == {1, 3}

\* What a processBatch call is answered with: a 2xx, a 429 with its
\* Retry-After header, or a server error.
BatchResponses ==
    {[status |-> 200, retryAfter |-> 0], [status |-> 500, retryAfter |-> 0]}
        \cup {[status |-> 429, retryAfter |-> h] : h \in RetryAfterHints}

BatchInit ==
    /\ bpc = "idle"
    /\ bAttempts = 0
    /\ bResponses = <<>>
    /\ bDelays = <<>>
    /\ berr = 0

\* handleBatchError, line 617: timer(error.headers.get('Retry-After') * 1000)
RetryAfterDelay(response) == response.retryAfter * 1000

RECURSIVE Pow2(_)
Pow2(n) == IF n = 0 THEN 1 ELSE 2 * Pow2(n - 1)

\* retryBatch, line 628: delay: (error, retryCount) => timer(Math.pow(2, retryCount) * 1000)
BatchRetryDelay(response, count) == Pow2(count) * 1000

\* handleBatchError(error, batch), called with the error of a processBatch
\* call, and the subscription to what it returns: for a 429 the timer of
\* the Retry-After header is started, any other error is rethrown.
HandleBatchError(error) ==
    /\ bpc = "idle"
    /\ error.status # 200
    /\ bAttempts' = 1
    /\ bResponses' = <<error>>
    /\ IF error.status = 429
          THEN /\ bpc' = "waiting"
               /\ bDelays' = <<RetryAfterDelay(error)>>
               /\ berr' = berr
          ELSE /\ bpc' = "failed"
               /\ berr' = error.status
               /\ bDelays' = bDelays
    /\ UNCHANGED NotBatch

\* A timer fires (the one of handleBatchError or the one of retry's
\* delay): processBatch is subscribed, or resubscribed.
BatchTimerFires ==
    /\ bpc = "waiting"
    /\ bpc' = "inflight"
    /\ bAttempts' = bAttempts + 1
    /\ UNCHANGED <<bResponses, bDelays, berr>>
    /\ UNCHANGED NotBatch

\* A processBatch call of retryBatch is answered.  retry() counts the
\* errors of retryBatch's calls: up to count of them start the timer of
\* `delay`, the next one is rethrown.
BatchRespond(response) ==
    /\ bpc = "inflight"
    /\ bResponses' = Append(bResponses, response)
    /\ LET count == Len(bResponses') - 1
       IN IF response.status = 200
             THEN /\ bpc' = "success"
                  /\ UNCHANGED <<bDelays, berr>>
             ELSE IF count <= batchRetryCount
                     THEN /\ bpc' = "waiting"
                          /\ bDelays' = Append(bDelays, BatchRetryDelay(response, count))
                          /\ berr' = berr
                     ELSE /\ bpc' = "failed"
                          /\ berr' = response.status
                          /\ bDelays' = bDelays
    /\ bAttempts' = bAttempts
    /\ UNCHANGED NotBatch

NextBatch ==
    \/ \E e \in BatchResponses : HandleBatchError(e)
    \/ BatchTimerFires
    \/ \E r \in BatchResponses : BatchRespond(r)

(***************************************************************************)
(* The queue, handed requests that retry with backoff:                     *)
(* addToQueue(() => http.get(...).pipe(retryWithBackoff(3, 1000)))         *)
(***************************************************************************)

\* The HTTP call of r fails.  The error goes to the retryWhen of r's
\* request, inside the observable mergeMap subscribed: while the timer
\* of concatMap runs that observable has neither completed nor failed,
\* so mergeMap keeps counting it and starts no buffered request.  When
\* retryWhen gives up, the error leaves the request as in QueueFail.
QueueBackoffError(r) ==
    /\ qpc[r] = "active"
    /\ IF BackoffGivesUp(qErrors[r])
          THEN QueueFail(r)
          ELSE /\ qpc' = [qpc EXCEPT ![r] = "backoff"]
               /\ qErrors' = [qErrors EXCEPT ![r] = qErrors[r] + 1]
               /\ UNCHANGED <<qAlive, qActive, qBuffer, admitted, qCancelledAt>>
               /\ UNCHANGED NotQueue

\* The timer of r fires: retryWhen resubscribes to http.get, inside the
\* same inner observable: the call is made at once, whatever waits in
\* mergeMap's buffer.
QueueBackoffElapsed(r) ==
    /\ qpc[r] = "backoff"
    /\ qpc' = [qpc EXCEPT ![r] = "active"]
    /\ UNCHANGED <<qAlive, qActive, qBuffer, admitted, qCancelledAt, qErrors>>
    /\ UNCHANGED NotQueue

NextQueueBackoff ==
    \/ \E r \in Reqs : AddToQueue(r)
    \/ \E r \in Reqs : QueueComplete(r)
    \/ \E r \in Reqs : QueueBackoffError(r)
    \/ \E r \in Reqs : QueueBackoffElapsed(r)

(***************************************************************************)
(* getData(): http.get('/api/data').pipe(retry(3), catchError(...)), the   *)
(* request passing AuthInterceptor inside http.get                         *)
(***************************************************************************)

\* retry(3) in getData, line 263
getDataRetryCount == 3

GetDataInit ==
    /\ gpc = "idle"
    /\ gSubs = 0
    /\ gErrors = 0
    /\ gCalls = <<>>
    /\ gerr = "none"

Resends(calls) == Cardinality({i \in 1..Len(calls) : calls[i].kind = "resend"})
Sends(calls) == Cardinality({i \in 1..Len(calls) : calls[i].kind = "send"})

\* retry(3): the source is resubscribed for each of the first 3 errors
\* it receives.  An error of the resend of handle401Error is one error,
\* like an error of the first call.
GetDataResubscribes_CountingResends(errors) == errors + Resends(gCalls) <= getDataRetryCount
GetDataResubscribes(errors) == errors <= getDataRetryCount

\* An error reaches retry(3) when `errors` errors reached it before and
\* the source has been subscribed `subs` times, the stored pair being
\* `stored`.  retry resubscribes in the same turn: intercept() runs again
\* and addAuthHeader sends the request with the stored access token, or
\* errors at once when no pair is stored, which is the next error.
\* [pc, subs, errors, err, send: whether a transport call is made]
RECURSIVE OnError(_, _, _, _)
OnError(error, errors, subs, stored) ==
    IF GetDataResubscribes(errors + 1)
       THEN IF stored # 0
               THEN [pc |-> "sending", subs |-> subs + 1, errors |-> errors + 1,
                     err |-> "none", send |-> TRUE]
               ELSE OnError("NoTokens", errors + 1, subs + 1, stored)
       ELSE [pc |-> "failed", subs |-> subs, errors |-> errors + 1,
             err |-> error, send |-> FALSE]

\* The variables of the request after an error reached retry(3).
AfterError(error, stored) ==
    LET r == OnError(error, gErrors, gSubs, stored)
    IN /\ gpc' = r.pc
       /\ gSubs' = r.subs
       /\ gErrors' = r.errors
       /\ gerr' = r.err
       /\ gCalls' = IF r.send
                       THEN Append(gCalls, [kind |-> "send", cred |-> stored])
                       ELSE gCalls

\* The application subscribes to getData(): the first subscription to
\* http.get.
GetData ==
    /\ gpc = "idle"
    /\ IF HasStoredTokens
          THEN /\ gpc' = "sending"
               /\ gSubs' = 1
               /\ gCalls' = <<[kind |-> "send", cred |-> tokens]>>
               /\ UNCHANGED <<gErrors, gerr>>
          ELSE LET r == OnError("NoTokens", 0, 1, 0)
               IN /\ gpc' = r.pc
                  /\ gSubs' = r.subs
                  /\ gErrors' = r.errors
                  /\ gerr' = r.err
                  /\ gCalls' = gCalls
    /\ UNCHANGED <<tokens, refreshTokenInProgress, refreshTokenSubject, issued,
                   refreshCalls, refreshInFlight>>
    /\ UNCHANGED NotGetData

\* The call of the running subscription is answered.  A 401 goes to
\* handle401Error: refreshToken() finds the flag down (this request is
\* the only user of the AuthService) and issues POST /auth/refresh.  Any
\* other error goes to retry(3).
GetDataRespond(status) ==
    /\ gpc = "sending"
    /\ ~AttachToRunning
    /\ CASE status = 200 ->
              /\ gpc' = "success"
              /\ UNCHANGED <<gSubs, gErrors, gCalls, gerr,
                             refreshTokenInProgress, refreshCalls, refreshInFlight>>
         [] status = 401 ->
              /\ gpc' = "refreshing"
              /\ refreshTokenInProgress' = TRUE
              /\ refreshCalls' = refreshCalls + 1
              /\ refreshInFlight' = refreshInFlight + 1
              /\ UNCHANGED <<gSubs, gErrors, gCalls, gerr>>
         [] OTHER ->
              /\ AfterError(ErrorOf(status), tokens)
              /\ UNCHANGED <<refreshTokenInProgress, refreshCalls, refreshInFlight>>
    /\ UNCHANGED <<tokens, refreshTokenSubject, issued>>
    /\ UNCHANGED NotGetData

\* POST /auth/refresh succeeds: the tap stores the pair, and
\* handle401Error resends with its access token.
GetDataRefreshSucceeds ==
    /\ gpc = "refreshing"
    /\ issued' = issued + 1
    /\ tokens' = issued + 1
    /\ refreshTokenSubject' = issued + 1
    /\ refreshTokenInProgress' = FlagAfterRefresh
    /\ refreshInFlight' = refreshInFlight - 1
    /\ gpc' = "resending"
    /\ gCalls' = Append(gCalls, [kind |-> "resend", cred |-> HeaderAfterRefresh(issued + 1)])
    /\ UNCHANGED <<gSubs, gErrors, gerr, refreshCalls>>
    /\ UNCHANGED NotGetData

\* POST /auth/refresh fails: catchError logs out and rethrows, and the
\* error reaches retry(3), whose resubscriptions find no stored pair.
GetDataRefreshFails ==
    /\ gpc = "refreshing"
    /\ tokens' = 0
    /\ refreshTokenSubject' = 0
    /\ refreshTokenInProgress' = FlagAfterRefresh
    /\ refreshInFlight' = refreshInFlight - 1
    /\ AfterError("RefreshFailed", 0)
    /\ UNCHANGED <<issued, refreshCalls>>
    /\ UNCHANGED NotGetData

\* The resend is answered; its error meets no catchError of the
\* interceptor and reaches retry(3).
GetDataResendRespond(status) ==
    /\ gpc = "resending"
    /\ IF status = 200
          THEN /\ gpc' = "success"
               /\ UNCHANGED <<gSubs, gErrors, gCalls, gerr>>
          ELSE AfterError(ErrorOf(status), tokens)
    /\ UNCHANGED <<tokens, refreshTokenInProgress, refreshTokenSubject, issued,
                   refreshCalls, refreshInFlight>>
    /\ UNCHANGED NotGetData

NextGetData ==
    \/ GetData
    \/ \E s \in Statuses : GetDataRespond(s)
    \/ GetDataRefreshSucceeds
    \/ GetDataRefreshFails
    \/ \E s \in Statuses : GetDataResendRespond(s)

(***************************************************************************)
(* BasicCrudComponent                                                      *)
(***************************************************************************)

\* A post is its id and its title; id 0 is the undefined id of the form.
\* Titles are numbered: 0 is the empty title of resetForm.
EmptyPost == [id |-> 0, title |-> 0]

\* What the user types into the title field of the form.
Titles == {1, 2}

\* The posts getPosts() answers with, and the id the server gives to a
\* created post.
ServerPosts == [i \in 1..(NumPostIds - 1) |-> [id |-> i, title |-> 0]]
CreatedId == NumPostIds

NoOp == [kind |-> "none", post |-> EmptyPost, state |-> "none"]
CrudOps == 1..MaxCrudOps

\* The component after construction and ngOnInit: loadPosts() has
\* subscribed to getPosts().
CrudInit ==
    /\ posts = <<>>
    /\ currentPost = EmptyPost
    /\ isEditing = FALSE
    /\ loadState = "pending"
    /\ ops = [k \in CrudOps |-> NoOp]

\* Calls are numbered in the order they are made.
IsNextOp(k) == ops[k] = NoOp /\ \A j \in CrudOps : j < k => ops[j] # NoOp

\* loadPosts(): next sets the list, error only logs.
LoadRespond(ok) ==
    /\ loadState = "pending"
    /\ IF ok
          THEN /\ loadState' = "done"
               /\ posts' = ServerPosts
          ELSE /\ loadState' = "failed"
               /\ posts' = posts
    /\ UNCHANGED <<currentPost, isEditing, ops>>
    /\ UNCHANGED NotCrud

\* editPost(post), for a post of the list.
EditPost(i) ==
    /\ i \in 1..Len(posts)
    /\ currentPost' = posts[i]
    /\ isEditing' = TRUE
    /\ UNCHANGED <<posts, loadState, ops>>
    /\ UNCHANGED NotCrud

\* The user types a title into the form bound to currentPost.
EditForm(t) ==
    /\ currentPost.title # t
    /\ currentPost' = [currentPost EXCEPT !.title = t]
    /\ UNCHANGED <<posts, isEditing, loadState, ops>>
    /\ UNCHANGED NotCrud

\* onSubmit(): updatePost(currentPost) when editing a post that has an
\* id, createPost(currentPost) otherwise.  Only the call is made.
OnSubmit(k) ==
    /\ IsNextOp(k)
    /\ ops' = [ops EXCEPT ![k] =
                  [kind |-> IF isEditing /\ currentPost.id # 0 THEN "update" ELSE "create",
                   post |-> currentPost, state |-> "pending"]]
    /\ UNCHANGED <<posts, currentPost, isEditing, loadState>>
    /\ UNCHANGED NotCrud

\* deletePost(id), for the id of a post of the list.
DeletePost(k, i) ==
    /\ IsNextOp(k)
    /\ i \in 1..Len(posts)
    /\ ops' = [ops EXCEPT ![k] =
                  [kind |-> "delete", post |-> [id |-> posts[i].id, title |-> 0],
                   state |-> "pending"]]
    /\ UNCHANGED <<posts, currentPost, isEditing, loadState>>
    /\ UNCHANGED NotCrud

\* this.posts.findIndex(p => p.id === id): the first index, or -1.
FindIndex(list, id) ==
    IF \E i \in 1..Len(list) : list[i].id = id
       THEN CHOOSE i \in 1..Len(list) :
                list[i].id = id /\ \A j \in 1..(i - 1) : list[j].id # id
       ELSE -1

\* The next handler of updatePost, lines 67-70: the post found by its
\* id is replaced, and nothing is done when none is found.
ApplyUpdate_Upsert(list, updatedPost) ==
    IF FindIndex(list, updatedPost.id) # -1
       THEN [list EXCEPT ![FindIndex(list, updatedPost.id)] = updatedPost]
       ELSE Append(list, updatedPost)
ApplyUpdate(list, updatedPost) ==
    IF FindIndex(list, updatedPost.id) # -1
       THEN [list EXCEPT ![FindIndex(list, updatedPost.id)] = updatedPost]
       ELSE list

\* this.posts.filter(post => post.id !== id)
RECURSIVE FilterOut(_, _)
FilterOut(list, id) ==
    IF list = <<>> THEN <<>>
    ELSE IF Head(list).id # id
            THEN <<Head(list)>> \o FilterOut(Tail(list), id)
            ELSE FilterOut(Tail(list), id)

\* The call of ops[k] is answered.  The error handlers only log.  The
\* next handlers: update replaces the post and resets the form, create
\* puts the new post first and resets the form, delete filters the list.
\* The server answers an update with the post it was sent and a create
\* with the post it was sent under a new id.
CrudRespond(k, ok) ==
    /\ ops[k].state = "pending"
    /\ ops' = [ops EXCEPT ![k].state = IF ok THEN "ok" ELSE "failed"]
    /\ IF ~ok
          THEN UNCHANGED <<posts, currentPost, isEditing>>
          ELSE CASE ops[k].kind = "update" ->
                      /\ posts' = ApplyUpdate(posts, ops[k].post)
                      /\ currentPost' = EmptyPost
                      /\ isEditing' = FALSE
                 [] ops[k].kind = "create" ->
                      /\ posts' = <<[ops[k].post EXCEPT !.id = CreatedId]>> \o posts
                      /\ currentPost' = EmptyPost
                      /\ isEditing' = FALSE
                 [] OTHER ->
                      /\ posts' = FilterOut(posts, ops[k].post.id)
                      /\ UNCHANGED <<currentPost, isEditing>>
    /\ loadState' = loadState
    /\ UNCHANGED NotCrud

NextCrud ==
    \/ \E ok \in BOOLEAN : LoadRespond(ok)
    \/ \E i \in 1..(NumPostIds + MaxCrudOps) : EditPost(i)
    \/ \E t \in Titles : EditForm(t)
    \/ \E k \in CrudOps : OnSubmit(k)
    \/ \E k \in CrudOps, i \in 1..(NumPostIds + MaxCrudOps) : DeletePost(k, i)
    \/ \E k \in CrudOps, ok \in BOOLEAN : CrudRespond(k, ok)

InitComponents ==
    AuthInit /\ QueueInit /\ CacheInit /\ RetryInit /\ BatchInit /\ GetDataInit /\ CrudInit

\* The callers put no Authorization header on their requests.
Init == InitComponents /\ callerAuth = [c \in Callers |-> 0]

\* Each caller puts an Authorization header of its own on its request,
\* or none.
InitCallerHeaders == InitComponents /\ callerAuth \in [Callers -> {0, CallerSupplied}]

\* The token refresh, with or without a stored pair at the start.
SpecAuth == Init /\ [][NextAuth]_vars

SpecAuthCancel == Init /\ [][NextAuthCancel]_vars

SpecAuthExpiry == Init /\ [][NextAuthExpiry]_vars

SpecAuthFair == Init /\ [][NextAuth]_vars /\ AuthFairness

\* The same requests, with headers of the callers.
SpecAuthHeaders == InitCallerHeaders /\ [][NextAuth]_vars

\* The other components do not read the stored pair.
InitNoTokens == Init /\ tokens = 0

SpecQueue == InitNoTokens /\ [][NextQueue]_vars

SpecSvcCache == InitNoTokens /\ [][NextSvcCache]_vars

SpecIcCache == InitNoTokens /\ [][NextIcCache]_vars

\* The application using both caches.
SpecCaches == InitNoTokens /\ [][NextSvcCache \/ NextIcCache]_vars

SpecRetry == InitNoTokens /\ [][NextRetry]_vars

SpecBatch == InitNoTokens /\ [][NextBatch]_vars
SpecQueueBackoff == InitNoTokens /\ [][NextQueueBackoff]_vars

SpecCrud == InitNoTokens /\ [][NextCrud]_vars

\* getData(), with or without a stored pair at the start.
SpecGetData == Init /\ [][NextGetData]_vars


(***************************************************************************)
(* Claims about the token refresh, checked under SpecAuth.                 *)
(***************************************************************************)

\* The requests attached to a refresh: the one that issued the call and
\* the ones subscribed to refreshTokenSubject.
Attached == {c \in Callers : pc[c] \in {"refreshing", "waiting"}}

\* C1: at most one POST /auth/refresh is in flight at any time: a call in
\* flight belongs to exactly one request, the one that found the flag
\* down, the flag is up for as long as the call is in flight, and every
\* other request that needs a refresh meanwhile is attached to that call
\* and has issued none of its own.
C1_SingleFlight ==
    /\ refreshInFlight \in {0, 1}
    /\ Cardinality({c \in Callers : pc[c] = "refreshing"}) = refreshInFlight
    /\ refreshInFlight = 1 => refreshTokenInProgress
    /\ \A c \in Callers :
          refreshInFlight = 1 /\ pc[c] = "waiting" => round[c] <= refreshCalls

\* C1 witness: all the requests got 401 while one refresh was running,
\* and one call was issued for them.
C1_Witness ==
    /\ refreshInFlight = 1
    /\ refreshCalls = 1
    /\ Cardinality({c \in Attached : round[c] = 1}) >= 3

\* C2: a request that refreshToken() hands a credential holds the pair
\* issued by the refresh call it attached to.
C2_SameNewCredential ==
    \A c \in Callers : got[c] # 0 => refreshResult[round[c]] = got[c]

\* C3: once a refresh call has failed, every request attached to it has
\* been released with the error RefreshFailed, and none holds a credential.
C3_FailureReleasesAll ==
    \A c \in Callers :
        round[c] # 0 /\ refreshResult[round[c]] = -1
            => pc[c] = "failed" /\ err[c] = "RefreshFailed" /\ got[c] = 0

\* The refresh calls that request c issued.
RefreshCallsOf(c) == {k \in 1..NumCallers : refreshBy[k] = c}

\* C11: a request whose 401 issued a refresh call that succeeded has
\* issued exactly one refresh call and made exactly two transport calls,
\* and the second carries the credential that refresh call returned,
\* which is not the credential of the first call.
C11_RefreshThenResend ==
    \A k \in 1..NumCallers :
        refreshBy[k] # 0 /\ refreshResult[k] > 0
            => LET c == refreshBy[k]
               IN /\ Cardinality(RefreshCallsOf(c)) = 1
                  /\ Len(sent[c]) = 2
                  /\ sent[c][2] = refreshResult[k]
                  /\ sent[c][2] # sent[c][1]

\* C11 witness: a request got 401, its refresh succeeded and the resend
\* was answered 200.
C11_Witness ==
    \E c \in Callers :
        /\ pc[c] = "success"
        /\ RefreshCallsOf(c) # {}
        /\ \A k \in RefreshCallsOf(c) : refreshResult[k] > 0

C17_FailedRefreshNotRetried ==
    [][/\ \A c \in Callers :
              round[c] # 0 /\ refreshResult[round[c]] = -1
                  => /\ sent'[c] = sent[c]
                     /\ \A k \in 1..NumCallers : refreshBy'[k] = c => refreshBy[k] = c
       /\ \A k \in 1..NumCallers :
              refreshResult[k] # -1 /\ refreshResult'[k] = -1 => tokens' = 0]_vars

\* C18: also when requests are cancelled, the refresh is in progress only
\* while its call is in flight: the call will be answered, which releases
\* the requests attached to it and resets the flag.
C18_CancelLeavesRefreshRunning ==
    refreshTokenInProgress => refreshInFlight = 1

\* C20: every request that was sent ends as a success or as a failure
\* delivered to its subscriber, when every HTTP call is answered.
C20_EveryRequestEnds ==
    \A c \in Callers : (pc[c] = "sending") ~> (pc[c] \in {"success", "failed"})

\* C21: the step in which a refresh call is answered, with a pair or
\* with an error, resets the flag, and with a pair it leaves that pair
\* stored; the flag is up only while a call is in flight; and a request
\* attaches only to a call that is still unanswered, any other 401
\* issues a new call.
C21_IdleAfterRefresh ==
    /\ [](refreshTokenInProgress => refreshInFlight = 1)
    /\ [][/\ \A k \in 1..NumCallers :
                refreshResult[k] = 0 /\ refreshResult'[k] # 0
                    => /\ ~refreshTokenInProgress'
                       /\ refreshResult'[k] > 0 => tokens' = refreshResult'[k]
         /\ \A c \in Callers :
                round[c] = 0 /\ round'[c] # 0
                    => /\ refreshResult'[round'[c]] = 0
                       /\ refreshInFlight' = 1
                       /\ ~refreshTokenInProgress => refreshBy'[round'[c]] = c]_vars

\* C21 witness: one refresh call has failed, another has succeeded, and
\* a third one, started after them, is in flight.
C21_Witness ==
    /\ \E j, k \in 1..NumCallers : refreshResult[j] = -1 /\ refreshResult[k] > 0
    /\ refreshCalls = 3
    /\ refreshInFlight = 1

\* C22: no transport call is made with a credential that, when the call
\* is made, is expired or within the refresh threshold of its expiry.
C22_NoStaleCredentialSent ==
    [][\A c \in Callers :
          Len(sent'[c]) > Len(sent[c]) => sent'[c][Len(sent'[c])] \notin stale]_vars

\* C31: every request is sent with the access token of the pair stored
\* at that moment as its Authorization header, on the first call and on
\* the resend, whatever Authorization header the caller put on the
\* request: the caller's value is never sent.  Checked under
\* SpecAuthHeaders.
C31_CallerCannotOverride ==
    [][\A c \in Callers :
          Len(sent'[c]) > Len(sent[c])
              => /\ sent'[c][Len(sent'[c])] = tokens'
                 /\ sent'[c][Len(sent'[c])] > 0
                 /\ sent'[c][Len(sent'[c])] # callerAuth[c]]_vars

\* C31 witness: a request whose caller supplied an Authorization header
\* was sent, met a 401 and was resent after a refresh.
C31_Witness ==
    \E c \in Callers :
        /\ callerAuth[c] = CallerSupplied
        /\ Len(sent[c]) = 2
        /\ sent[c][1] > 0
        /\ sent[c][2] > sent[c][1]

\* C30: the requests to /auth/login and /auth/refresh take the plain way
\* through intercept(), with no credential attached and no 401 handling;
\* every refresh call was issued by the 401 of a request, none by the
\* answer to a refresh call; a refresh call answered 401 has failed and
\* its request has failed with it; and no request waits for the result
\* of the refresh call it issued itself.
C30_AuthEndpointsExempt ==
    /\ \A call \in authIntercepted : call.path = "plain"
    /\ refreshCalls = Cardinality({k \in 1..NumCallers : refreshBy[k] # 0})
    /\ \A k \in 1..NumCallers :
           refreshStatus[k] = 401
               => refreshResult[k] = -1 /\ pc[refreshBy[k]] = "failed"
    /\ \A c \in Callers :
           pc[c] = "waiting" => refreshBy[round[c]] # c

\* C30 witness: after a login, a request met a 401 and its refresh call
\* was answered 401.
C30_Witness ==
    /\ [url |-> LoginUrl, path |-> "plain"] \in authIntercepted
    /\ [url |-> RefreshUrl, path |-> "plain"] \in authIntercepted
    /\ \E k \in 1..NumCallers : refreshStatus[k] = 401 /\ refreshCalls = k

(***************************************************************************)
(* Claims about the request queue, checked under SpecQueue.                *)
(***************************************************************************)

\* The requests whose HTTP call is running.
Running == {r \in Reqs : qpc[r] = "active"}

\* C4: the number of requests whose HTTP call is running never exceeds
\* concurrentRequests.
C4_AtMostNRunning == Cardinality(Running) <= concurrentRequests

\* C4 witness: every slot is taken while requests wait.
C4_Witness == Cardinality(Running) = concurrentRequests /\ Len(qBuffer) >= 2

\* C5: requests are started in the order they were handed to the queue
\* (their numbers): no request is started before one handed in earlier.
C5_Fifo ==
    /\ \A i, j \in 1..Len(admitted) : i < j => admitted[i] < admitted[j]
    /\ \A r \in Reqs : InSeq(r, admitted) => \A q \in 1..r : InSeq(q, admitted)

\* C5 witness: a request that waited behind a full gate, with another
\* one waiting behind it, has been started.
C5_Witness ==
    /\ Len(admitted) > concurrentRequests
    /\ qpc[admitted[Len(admitted)]] = "active"
    /\ qBuffer # <<>>

\* C13: a request whose caller cancelled it while it was waiting for a
\* slot is never started: it takes no slot and its HTTP call is never
\* made.
C13_CancelledQueuedNeverStarts ==
    \A r \in Reqs : qCancelledAt[r] = "queued" => ~InSeq(r, admitted)

\* The requests that are over: answered, failed, or torn down with the
\* queue.
Over == {r \in Reqs : qpc[r] \in {"done", "failed", "aborted", "dropped"}}

\* C14: the count of held slots is never negative, and it is 0 once
\* every submitted request is over or has been cancelled.
C14_SlotsReleased ==
    /\ qActive >= 0
    /\ (\A r \in Reqs : qpc[r] # "new" => r \in Over \/ qCancelledAt[r] # "no")
          => qActive = 0

\* C26: a request waiting out a backoff delay holds no slot: the slots
\* held are those of the requests whose HTTP call is running, and a
\* request resent after its wait was let in behind the requests that
\* were waiting for a slot.  Checked under SpecQueueBackoff.
C26_BackoffHoldsNoSlot ==
    /\ [](qAlive => qActive = Cardinality(Running))
    /\ [][\A r \in Reqs :
              qpc[r] = "backoff" /\ qpc'[r] = "active" => qBuffer = <<>>]_vars

(***************************************************************************)
(* Claims about the caches, checked under SpecSvcCache and SpecIcCache.    *)
(***************************************************************************)

\* C6: every read answered from a cache, of either cache, was answered
\* with an entry no older than MAX_CACHE_AGE.
C6_NoStaleHit ==
    \A k \in CacheReqs : cpc[k] = "hit" => creq[k].age <= MAX_CACHE_AGE

\* Read j went to the network and has not failed.
WentToNetwork(j) == creq[j].method = "GET" /\ cpc[j] \in {"pending", "ok"}

\* C7: of two reads of the same key made within MAX_CACHE_AGE of each
\* other, only the first goes to the network, also when the second is
\* made before the first is answered.
C7_OneCallPerKey ==
    \A j, k \in CacheReqs :
        /\ j < k
        /\ WentToNetwork(j)
        /\ creq[k].method = "GET"
        /\ creq[k].via = creq[j].via
        /\ creq[k].url = creq[j].url
        /\ madeAt[k] - madeAt[j] <= MAX_CACHE_AGE
        => cpc[k] = "hit"

\* C8: a successful write to a resource leaves no cached entry under
\* that resource's key, in either cache.
C8_WriteInvalidates ==
    [][\A u \in Urls :
          serverData'[u] # serverData[u]
              => icCache'[u] = NoEntry /\ svcCache'[u] = NoEntry]_vars

\* C23: the step in which a read is answered from a cache hands it the
\* data of the cached entry, leaves both cache maps as they were, starts
\* no HTTP call (no request becomes pending) and takes no slot of the
\* request queue; and a read answered from a cache stays answered.
C23_HitIsPure ==
    [][\A k \in CacheReqs :
          /\ cpc[k] = "new" /\ cpc'[k] = "hit"
                => /\ svcCache' = svcCache
                   /\ icCache' = icCache
                   /\ icStoredAt' = icStoredAt
                   /\ creq'[k].data # -1
                   /\ creq'[k].data = IF creq'[k].via = "svc"
                                         THEN svcCache[creq'[k].url].data
                                         ELSE icCache[creq'[k].url].data
                   /\ \A j \in CacheReqs \ {k} : cpc'[j] = cpc[j]
                   /\ qActive' = qActive /\ qBuffer' = qBuffer /\ admitted' = admitted
          /\ cpc[k] = "hit" => cpc'[k] = "hit" /\ creq'[k] = creq[k]]_vars

\* C23 witness: a read was answered from an entry that is not expired,
\* some time after the entry was stored.
C23_Witness ==
    \E k \in CacheReqs :
        cpc[k] = "hit" /\ creq[k].age > 0 /\ creq[k].age <= MAX_CACHE_AGE

\* C24: a write is never answered from the cache, also when an entry is
\* cached under its URL: the step in which it is made leaves it pending
\* on the network; and no step of a write, its response included,
\* changes the cache map.
C24_WriteBypassesCache ==
    [][\A k \in CacheReqs :
          /\ cpc[k] = "new" /\ creq'[k].method = "PUT"
                => cpc'[k] = "pending" /\ icCache' = icCache
          /\ creq[k].method = "PUT" /\ cpc'[k] # cpc[k]
                => icCache' = icCache /\ cpc'[k] \in {"ok", "failed"}]_vars

\* C24 witness: a write was made while an entry was cached under its
\* URL, and the server has answered it.
C24_Witness ==
    \E k \in CacheReqs :
        /\ creq[k].method = "PUT"
        /\ cpc[k] = "ok"
        /\ icCache[creq[k].url] # NoEntry
        /\ icCache[creq[k].url].data < serverData[creq[k].url]

\* C29: a read that failed leaves both caches as they were, and a read
\* that succeeded leaves under its URL, in the cache it went through, an
\* entry with the response and, as timestamp, the current time.
\* Checked under SpecCaches.
C29_OnlySuccessfulReadsStored ==
    [][\A k \in CacheReqs :
          cpc[k] = "pending" /\ creq[k].method = "GET" =>
              /\ cpc'[k] = "failed" => svcCache' = svcCache /\ icCache' = icCache
              /\ cpc'[k] = "ok" =>
                    LET entry == IF creq[k].via = "svc"
                                    THEN svcCache'[creq[k].url]
                                    ELSE icCache'[creq[k].url]
                    IN /\ entry.data = serverData[creq[k].url]
                       /\ "timestamp" \in DOMAIN entry
                       /\ entry.timestamp = now]_vars

(***************************************************************************)
(* Claims about the retry pipelines, checked under SpecRetry.              *)
(***************************************************************************)

\* The number the pipeline is configured with.
Configured == IF rkind = "getPostsWithRetry" THEN retryCount ELSE maxRetries

StrictlyIncreasing(seq) == \A i, j \in 1..Len(seq) : i < j => seq[i] < seq[j]

\* C10: when the first k calls (k below the configured number) fail with
\* a server error and the next one succeeds, k + 1 calls were made, the
\* delays between them grew strictly, and the request succeeded.
C10_BackoffThenSuccess ==
    \A k \in 0..(Configured - 1) :
        /\ rkind # "none"
        /\ Len(responses) = k + 1
        /\ \A i \in 1..k : responses[i] = 500
        /\ responses[k + 1] = 200
        => /\ rpc = "success"
           /\ attempts = k + 1
           /\ Len(delays) = k
           /\ StrictlyIncreasing(delays)

\* C15: a 404 ends the request: it is the last response, the request has
\* failed, and no call was made after the one it answered.
C15_ClientErrorIsTerminal ==
    \A i \in 1..Len(responses) :
        responses[i] = 404 => i = Len(responses) /\ rpc = "failed" /\ attempts = i

\* C19: a request gives up on retryable failures only after the
\* configured number of attempts: when it has failed and each of its
\* calls ended in a server error or in the timeout, at least that many
\* calls were made.
C19_RetryableIsRetried ==
    rpc = "failed" /\ (\A i \in 1..Len(responses) : responses[i] = 500)
        => attempts >= Configured

(***************************************************************************)
(* Claims about the batch error handler, checked under SpecBatch.          *)
(***************************************************************************)

\* C12: the wait that follows a 429 is exactly the Retry-After value of
\* that 429, for the first failed call and for every later one.
C12_RetryAfterExactly ==
    \A i \in 1..Len(bDelays) :
        bResponses[i].status = 429 => bDelays[i] = bResponses[i].retryAfter * 1000

\* C27: the delay retryWithBackoff waits before attempt n + 1 is
\* backoffMs * 2^(n-1) plus a jitter of at least 0 and less than
\* backoffMs, for every attempt n that ended in a server error and is
\* retried.  Checked under SpecRetry.
C27_ExponentialBackoff ==
    rkind = "retryWithBackoff" =>
        \A n \in 1..Len(delays) :
            responses[n] = 500 =>
                /\ delays[n] >= backoffMs * Pow2(n - 1)
                /\ delays[n] < backoffMs * Pow2(n - 1) + backoffMs

\* The kind of the error that ended a getPostsWithRetry request:
\* retry(3) gives up on the error of a call only after retryCount + 1
\* errors, so a request that failed with fewer was ended by timeout(5000).
LastErrorKind ==
    IF Cardinality({i \in 1..Len(responses) : responses[i] # 200}) <= retryCount
       THEN "timeout"
       ELSE IF responses[Len(responses)] = 404 THEN "client" ELSE "server"

\* What the subscriber can read from the error it is handed.  The Error
\* of line 86 has a fixed message and nothing else: no status and no
\* kind, and as a count the 3 retries of its text, the calls of a
\* request retried 3 times.
KindCarried(error) ==
    IF error = "Failed to fetch posts after 3 retries" THEN "none" ELSE error
CallsCarried(error) ==
    IF error = "Failed to fetch posts after 3 retries" THEN 3 + 1 ELSE 0

\* C28: the error handed to the subscriber of a failed getPostsWithRetry
\* request tells the kind of the last error (timeout, client, server),
\* and the count it reports is the number of calls that were made.
\* Checked under SpecRetry.
C28_FailureCarriesKindAndCount ==
    rkind = "getPostsWithRetry" /\ rpc = "failed"
        => /\ KindCarried(rerr) = LastErrorKind
           /\ CallsCarried(rerr) = attempts

(***************************************************************************)
(* Claims about getData() behind AuthInterceptor, checked under            *)
(* SpecGetData.                                                            *)
(***************************************************************************)

\* C25: the resends of handle401Error are not counted by retry(3): the
\* calls that count are the subscriptions, at most getDataRetryCount + 1
\* whatever 401s were met, each with at most one resend; and a request
\* that gave up on the errors of its calls made all of those
\* getDataRetryCount + 1 counted calls, also when it made resends.
C25_ResendNotCounted ==
    /\ gSubs <= getDataRetryCount + 1
    /\ Sends(gCalls) <= gSubs
    /\ Resends(gCalls) <= Sends(gCalls)
    /\ gpc = "failed" /\ gerr # "NoTokens" => Sends(gCalls) = getDataRetryCount + 1

\* C25 witness: the request met a 401 and was resent, and then gave up
\* after all of its counted calls: more transport calls than counted
\* ones.
C25_Witness ==
    /\ gpc = "failed"
    /\ gerr = "Http500"
    /\ Resends(gCalls) >= 1
    /\ Sends(gCalls) = getDataRetryCount + 1
    /\ Len(gCalls) > getDataRetryCount + 1

(***************************************************************************)
(* Claims about BasicCrudComponent, checked under SpecCrud.                *)
(***************************************************************************)

HasPost(list, id) == \E i \in 1..Len(list) : list[i].id = id

\* C32: when a create, update or delete call fails, the list, the form
\* and the editing flag stay as they are; when a delete succeeds, the
\* list loses the posts with the deleted id and keeps every other post,
\* in order; when an update succeeds, the list keeps its length, only
\* entries with the id of the updated post change, and a list without a
\* post of that id stays as it is.
C32_CrudFrame ==
    [][\A k \in CrudOps :
          /\ ops[k].state = "pending" /\ ops'[k].state = "failed"
                => posts' = posts /\ currentPost' = currentPost /\ isEditing' = isEditing
          /\ ops[k].state = "pending" /\ ops'[k].state = "ok" /\ ops[k].kind = "delete"
                => /\ ~HasPost(posts', ops[k].post.id)
                   /\ posts' = SelectSeq(posts, LAMBDA p : p.id # ops[k].post.id)
          /\ ops[k].state = "pending" /\ ops'[k].state = "ok" /\ ops[k].kind = "update"
                => /\ Len(posts') = Len(posts)
                   /\ \A i \in 1..Len(posts) :
                          posts'[i] # posts[i]
                              => posts[i].id = ops[k].post.id /\ posts'[i] = ops[k].post
                   /\ HasPost(posts, ops[k].post.id) => HasPost(posts', ops[k].post.id)
                   /\ ~HasPost(posts, ops[k].post.id) => posts' = posts]_vars

\* C32 witness: an update with a changed title and a delete of the same
\* post, made while the update was or had been under way, have both
\* succeeded, the post is gone, and another call has failed.
C32_Witness ==
    \E u, d, f \in CrudOps :
        /\ ops[u].kind = "update" /\ ops[u].state = "ok" /\ ops[u].post.title # 0
        /\ ops[d].kind = "delete" /\ ops[d].state = "ok" /\ ops[d].post.id = ops[u].post.id
        /\ d > u
        /\ ops[f].state = "failed"
        /\ ~HasPost(posts, ops[u].post.id)
        /\ posts # <<>>

=============================================================================
